---- MODULE Spec2Model ----
(***************************************************************************)
(* Model of the finalize_cname CoreDNS plugin: Finalize.ServeDNS and       *)
(* findLastTarget.  Two revisions of the handler are present in the        *)
(* sources and both are modelled:                                          *)
(*   variant = "goto" : src/finalize.go       (label Out / label Redo)     *)
(*   variant = "loop" : src/unnamed/part_000  (for loop / writeResponse)   *)
(* One behaviour of Spec is one call of ServeDNS for one request.          *)
(* LocatorSpec applies findLastTarget to every bounded record set.         *)
(* ParseSpec is one call of parse (setup.go) on the lines of a Corefile.   *)
(* ConcurrentSpec is several calls of ServeDNS on one handler, interleaved.*)
(***************************************************************************)
EXTENDS Integers, Sequences, FiniteSets, TLC

VARIABLES
    variant,                \* which revision of ServeDNS runs
    maxLookup,              \* Finalize.maxLookup
    pc,                     \* position of the handler
    nextErr,                \* err returned by plugin.NextOrFailure
    captured,               \* nw.Msg as the downstream pipeline wrote it
    response,               \* the message `response` points at (mutable)
    lookupedNames,          \* set of names already processed
    lookupCnt,              \* lookupCnt
    rrs,                    \* working accumulator
    targetName,             \* current unresolved target
    deferred,               \* a recordDuration call has been deferred
    requestCount,
    maxLookupReachedCount,
    circularReferenceCount,
    upstreamErrorCount,
    danglingCNameCount,
    requestDuration,        \* number of observations of the histogram
    upstreamLog,            \* upstream.Lookup calls issued, in order
    written,                \* w.WriteMsg calls (message, outcome), in order
    ret,                    \* (rcode, err) returned by ServeDNS
    flRRs,                  \* findLastTarget: argument rrs
    flQname,                \* findLastTarget: argument qname
    flResult,               \* findLastTarget: returned (name, err)
    directives,             \* parse: the argument lists c.RemainingArgs() returned
    parseErr,               \* parse: the error returned
    zone,                   \* concurrent calls: what the upstream answers for a name
    calls                   \* concurrent calls: the local variables of each call

hvars == <<variant, maxLookup, pc, nextErr, captured, response, lookupedNames,
           lookupCnt, rrs, targetName, deferred, requestCount,
           maxLookupReachedCount, circularReferenceCount, upstreamErrorCount,
           danglingCNameCount, requestDuration, upstreamLog, written, ret>>
lvars == <<flRRs, flQname, flResult>>
pvars == <<directives, parseErr>>
cvars == <<zone, calls>>
vars == <<hvars, lvars, pvars, cvars>>

----------------------------------------------------------------------------
(* Bounds of the model *)

MaxAnswer == 2      \* longest answer section produced by the rest of the chain
MaxUpstream == 2    \* longest answer section returned by one upstream lookup
MaxRecords == 4     \* most records of one request: captured answer and upstream answers
MaxBudget == 2      \* largest explicitly configured max_lookup
MaxRRs == 3         \* longest record set handed to findLastTarget on its own
MaxLines == 2       \* most occurrences of the directive in one server block
MaxArgs == 3        \* most arguments of one occurrence of the directive
MaxCalls == 2       \* calls of ServeDNS that run at the same time

----------------------------------------------------------------------------
(* Data: names, records, messages *)

Names == {"a", "b", "c"}
QuestionNames == {"a", "A"}

TypeCNAME == "CNAME"
TypeA == "A"

RcodeSuccess == 0
RcodeServerFailure == 2

maxLookupDefault == 10

CNAMERecords == {[name |-> n, rrtype |-> TypeCNAME, target |-> t] : n \in Names, t \in Names}
ARecords == {[name |-> n, rrtype |-> TypeA, target |-> "1.2.3.4"] : n \in Names}
Records == CNAMERecords \cup ARecords
NilRR == [name |-> "", rrtype |-> "nil", target |-> ""]

SeqsUpTo(S, n) == UNION {[1..k -> S] : k \in 0..n}

NoMsg == [nil |-> TRUE, qname |-> "", qtype |-> "", answer |-> <<>>]
Messages == {[nil |-> FALSE, qname |-> q, qtype |-> t, answer |-> a] :
                q \in QuestionNames, t \in {TypeA, TypeCNAME}, a \in SeqsUpTo(Records, MaxAnswer)}

\* maxLookup: not limited (a handler built without parse), the two largest
\* configured values, the default
Budgets == {0, MaxBudget - 1, MaxBudget, maxLookupDefault}

NoRet == [rcode |-> -1, err |-> "running"]

\* request.Request.QName: the question name, lower-cased
ToLower(n) == IF n = "A" THEN "a" ELSE n
QName(msg) == ToLower(msg.qname)
QType(msg) == msg.qtype

----------------------------------------------------------------------------
(* parse (setup.go): the arguments of the directive *)

\* a token of the Corefile is a sequence of characters
MaxLookupWord == <<"m", "a", "x", "_", "l", "o", "o", "k", "u", "p">>
Words ==
    { MaxLookupWord,
      <<"M", "a", "x", "_", "L", "o", "o", "k", "u", "p">>,
      <<"m", "a", "x", "_", "l", "o", "o", "k", "u", "p", "s">>,
      <<"u", "p">> }
Numerals ==
    { <<"0">>, <<"1">>, <<"1", "0">>, <<"0", "1">>, <<"-", "1">>, <<"+", "1">>,
      <<"-", "0">>, <<"-">>, <<"1", ".", "0">>, <<"1", "x">>, <<>> }
Tokens == Words \cup Numerals

\* c.RemainingArgs(): parse reads len(args) and, when it is 2, args[0] and
\* args[1]; the further arguments of a longer line are never read
Filler == <<"x">>
Lines ==
    SeqsUpTo(Tokens, 2) \cup
    {l \o [i \in 1..k |-> Filler] : l \in [1..2 -> Tokens], k \in 1..(MaxArgs - 2)}

\* simple case folding of the letters of the tokens
Fold(c) == CASE c = "M" -> "m" [] c = "L" -> "l" [] OTHER -> c

\* strings.EqualFold(s, t)
EqualFold(s, t) == Len(s) = Len(t) /\ \A i \in 1..Len(s) : Fold(s[i]) = Fold(t[i])

Digits == {"0", "1"}
DigitValue(c) == IF c = "1" THEN 1 ELSE 0

RECURSIVE Accumulate(_, _, _)
\* n = n*10 + digit, left to right; an error at the first other character
Accumulate(s, i, n) ==
    IF i > Len(s) THEN [n |-> n, err |-> FALSE]
    ELSE IF s[i] \notin Digits THEN [n |-> 0, err |-> TRUE]
    ELSE Accumulate(s, i + 1, n * 10 + DigitValue(s[i]))

\* strconv.Atoi(s): an optional sign, then at least one digit, digits only
Atoi(s) ==
    IF s = <<>> THEN [n |-> 0, err |-> TRUE]
    ELSE LET signed == s[1] \in {"+", "-"}
             body == IF signed THEN Tail(s) ELSE s
             acc == Accumulate(body, 1, 0)
         IN IF body = <<>> \/ acc.err THEN [n |-> 0, err |-> TRUE]
            ELSE [n |-> IF s[1] = "-" THEN 0 - acc.n ELSE acc.n, err |-> FALSE]

\* variant: only a negative value is refused
NotPositive_Negative(n) == n < 0

\* n <= 0
NotPositive(n) == n <= 0

----------------------------------------------------------------------------
(* findLastTarget *)

RECURSIVE BuildNameToTarget(_, _, _)
BuildNameToTarget(recs, i, m) ==
    IF i > Len(recs) THEN m
    ELSE IF recs[i].rrtype = TypeCNAME
         THEN BuildNameToTarget(recs, i + 1,
                  [x \in (DOMAIN m) \cup {recs[i].name} |->
                      IF x = recs[i].name THEN recs[i].target ELSE m[x]])
         ELSE BuildNameToTarget(recs, i + 1, m)

EmptyMap == [x \in {} |-> ""]
nameToTarget(recs) == BuildNameToTarget(recs, 1, EmptyMap)

\* variants of the depth test: off by one in either direction
DepthExceeded_AtLeast(depth, m) == depth >= Cardinality(DOMAIN m)
DepthExceeded_Late(depth, m) == depth > Cardinality(DOMAIN m) + 1

\* depth > len(nameToTarget)
DepthExceeded(depth, m) == depth > Cardinality(DOMAIN m)

\* variant: the depth == 0 test is missing
ChainEnd_NoDepthTest(nextName, depth) == [name |-> nextName, err |-> "nil", hops |-> depth]

\* the chain ends at nextName: if depth == 0 { error } return nextName, nil
ChainEnd(nextName, depth) ==
    IF depth = 0
    THEN [name |-> "", err |-> "no CNAME records found for qname", hops |-> depth]
    ELSE [name |-> nextName, err |-> "nil", hops |-> depth]

RECURSIVE FollowChain(_, _, _)
FollowChain(m, nextName, depth) ==
    IF nextName \notin DOMAIN m
    THEN ChainEnd(nextName, depth)
    ELSE IF DepthExceeded(depth + 1, m)
         THEN [name |-> "", err |-> "circular reference", hops |-> depth + 1]
         ELSE FollowChain(m, m[nextName], depth + 1)

\* variant: a failure is turned into a target, the starting name
findLastTarget_ErrorDropped(recs, qname) ==
    LET m == nameToTarget(recs)
        found == IF Cardinality(DOMAIN m) = 0
                 THEN [name |-> "", err |-> "no CNAME records found", hops |-> 0]
                 ELSE FollowChain(m, qname, 0)
    IN IF found.err = "nil" THEN found
       ELSE [name |-> qname, err |-> "nil", hops |-> found.hops]

findLastTarget(recs, qname) ==
    LET m == nameToTarget(recs) IN
    IF Cardinality(DOMAIN m) = 0
    THEN [name |-> "", err |-> "no CNAME records found", hops |-> 0]
    ELSE FollowChain(m, qname, 0)

----------------------------------------------------------------------------
(* Helpers of ServeDNS *)

\* variant: only the first record is inspected
AlreadyFinalized_FirstOnly(answer) == Len(answer) > 0 /\ answer[1].rrtype # TypeCNAME

\* skip if the answer is already finalized:
\* for _, rr := range response.Answer { if rr.Header().Rrtype != dns.TypeCNAME { skip } }
AlreadyFinalized(answer) == \E i \in 1..Len(answer) : answer[i].rrtype # TypeCNAME

\* variant: the question type is not tested
Skips_NoQtypeTest(msg) ==
    \/ Len(msg.answer) = 0
    \/ \E i \in 1..Len(msg.answer) : msg.answer[i].rrtype # TypeCNAME

\* the three skip tests in front of the resolution
Skips(msg) ==
    \/ msg.qtype = TypeCNAME
    \/ Len(msg.answer) = 0
    \/ AlreadyFinalized(msg.answer)

\* variant: the comparison is inverted
IsFinalized_Inverted(lookupRRs) == \E i \in 1..Len(lookupRRs) : lookupRRs[i].rrtype = TypeCNAME

\* variant: one alias record keeps the answer from being final
IsFinalized_AllNonAlias(lookupRRs) ==
    \A i \in 1..Len(lookupRRs) : lookupRRs[i].rrtype # TypeCNAME

\* check if answer is finalized:
\* for _, rr := range lookupRRs { if rr.Header().Rrtype != dns.TypeCNAME { commit } }
IsFinalized(lookupRRs) == \E i \in 1..Len(lookupRRs) : lookupRRs[i].rrtype # TypeCNAME

\* variant: the set of processed names is never consulted
AlreadyProcessed_Never(names, target) == FALSE

\* _, ok := lookupedNames[targetName]
AlreadyProcessed(names, target) == target \in names

\* rrs = append(rrs, lookupRRs...)
AppendRRs(acc, lookupRRs) == acc \o lookupRRs

\* response.Answer = rrs
Commit(resp, acc) == [resp EXCEPT !.answer = acc]

\* variant: the write error is dropped
WriteResult_IgnoresError(failed) == [rcode |-> RcodeSuccess, err |-> "nil"]

\* the (rcode, err) that follows w.WriteMsg
WriteResult(failed) ==
    IF failed THEN [rcode |-> RcodeServerFailure, err |-> "write"]
              ELSE [rcode |-> RcodeSuccess, err |-> "nil"]

\* make([]dns.RR, n): n zero values
MakeRRs(n) == [i \in 1..n |-> NilRR]

\* copy(dst, src): min(len(dst), len(src)) elements are copied
Copy(dst, src) == [i \in 1..Len(dst) |-> IF i <= Len(src) THEN src[i] ELSE dst[i]]

\* rrs := make(...); copy(rrs, response.Answer)
CopyAnswer(v, answer) ==
    IF v = "goto" THEN Copy(MakeRRs(0), answer)
                  ELSE Copy(MakeRRs(Len(answer)), answer)

\* s.maxLookup > 0 && lookupCnt >= s.maxLookup
BudgetReached(max, cnt) == max > 0 /\ cnt >= max

RECURSIVE Returned(_)
Returned(log) == IF log = <<>> THEN 0 ELSE Len(log[1].answer) + Returned(Tail(log))

Min(x, y) == IF x <= y THEN x ELSE y

\* the answers the upstream may give to the next lookup
UpstreamAnswers ==
    SeqsUpTo(Records,
             Min(MaxUpstream, MaxRecords - Len(captured.answer) - Returned(upstreamLog)))

----------------------------------------------------------------------------
(* Initial states *)

HandlerInit ==
    /\ variant \in {"goto", "loop"}
    /\ maxLookup \in Budgets
    /\ pc = "start"
    /\ nextErr = FALSE
    /\ captured = NoMsg
    /\ response = NoMsg
    /\ lookupedNames = {}
    /\ lookupCnt = 0
    /\ rrs = <<>>
    /\ targetName = ""
    /\ deferred = FALSE
    /\ requestCount = 0
    /\ maxLookupReachedCount = 0
    /\ circularReferenceCount = 0
    /\ upstreamErrorCount = 0
    /\ danglingCNameCount = 0
    /\ requestDuration = 0
    /\ upstreamLog = <<>>
    /\ written = <<>>
    /\ ret = NoRet

NoResult == [name |-> "", err |-> "not called", hops |-> 0]

LocatorIdle ==
    /\ flRRs = <<>>
    /\ flQname = ""
    /\ flResult = NoResult

ParseIdle ==
    /\ directives = <<>>
    /\ parseErr = "not called"

ConcurrentIdle ==
    /\ zone = <<>>
    /\ calls = <<>>

Init == HandlerInit /\ LocatorIdle /\ ParseIdle /\ ConcurrentIdle

----------------------------------------------------------------------------
(* Actions of ServeDNS *)

\* variant: the deferred call is lost
Return_NotObserved(rcode, err) ==
    /\ ret' = [rcode |-> rcode, err |-> err]
    /\ requestDuration' = requestDuration
    /\ pc' = "done"

\* return rcode, err: the deferred recordDuration runs
Return(rcode, err) ==
    /\ ret' = [rcode |-> rcode, err |-> err]
    /\ requestDuration' = IF deferred THEN requestDuration + 1 ELSE requestDuration
    /\ pc' = "done"

\* plugin.NextOrFailure returned an error
NextFails ==
    /\ pc = "start"
    /\ \E m \in Messages \cup {NoMsg}, rcode \in {RcodeSuccess, RcodeServerFailure} :
          /\ nextErr' = TRUE
          /\ captured' = m
          /\ Return(rcode, "next")
    /\ UNCHANGED <<variant, maxLookup, response, lookupedNames, lookupCnt, rrs,
                   targetName, deferred, requestCount, maxLookupReachedCount,
                   circularReferenceCount, upstreamErrorCount, danglingCNameCount,
                   upstreamLog, written>>

\* variant: a missing message is reported as a success
NoAnswerReceived_Success ==
    /\ pc = "start"
    /\ nextErr' = FALSE
    /\ captured' = NoMsg
    /\ Return(RcodeSuccess, "nil")
    /\ UNCHANGED <<variant, maxLookup, response, lookupedNames, lookupCnt, rrs,
                   targetName, deferred, requestCount, maxLookupReachedCount,
                   circularReferenceCount, upstreamErrorCount, danglingCNameCount,
                   upstreamLog, written>>

\* plugin.NextOrFailure returned without error and nothing was written to nw
NoAnswerReceived ==
    /\ pc = "start"
    /\ nextErr' = FALSE
    /\ captured' = NoMsg
    /\ Return(RcodeServerFailure, "no answer received")
    /\ UNCHANGED <<variant, maxLookup, response, lookupedNames, lookupCnt, rrs,
                   targetName, deferred, requestCount, maxLookupReachedCount,
                   circularReferenceCount, upstreamErrorCount, danglingCNameCount,
                   upstreamLog, written>>

\* a message was captured and one of the skip tests matches
Skip ==
    /\ pc = "start"
    /\ \E m \in Messages :
          /\ Skips(m)
          /\ nextErr' = FALSE
          /\ captured' = m
          /\ response' = m
    /\ pc' = "out"
    /\ UNCHANGED <<variant, maxLookup, lookupedNames, lookupCnt, rrs,
                   targetName, deferred, requestCount, maxLookupReachedCount,
                   circularReferenceCount, upstreamErrorCount, danglingCNameCount,
                   requestDuration, upstreamLog, written, ret>>

\* a message was captured, no skip test matches: the resolution starts
Begin ==
    /\ pc = "start"
    /\ \E m \in Messages :
          /\ ~Skips(m)
          /\ nextErr' = FALSE
          /\ captured' = m
          /\ response' = m
          /\ LET copied == CopyAnswer(variant, m.answer)
                 found == findLastTarget(copied, QName(m))
             IN /\ rrs' = copied
                /\ targetName' = found.name
                /\ pc' = IF found.err = "nil" THEN "redo" ELSE "out"
    /\ requestCount' = requestCount + 1
    /\ deferred' = TRUE
    /\ lookupedNames' = {}
    /\ lookupCnt' = 0
    /\ UNCHANGED <<variant, maxLookup, maxLookupReachedCount,
                   circularReferenceCount, upstreamErrorCount, danglingCNameCount,
                   requestDuration, upstreamLog, written, ret>>

\* the budget test at the head of an iteration
MaxLookupReached ==
    /\ pc = "redo"
    /\ BudgetReached(maxLookup, lookupCnt)
    /\ maxLookupReachedCount' = maxLookupReachedCount + 1
    /\ pc' = "out"
    /\ UNCHANGED <<variant, maxLookup, nextErr, captured, response, lookupedNames,
                   lookupCnt, rrs, targetName, deferred, requestCount,
                   circularReferenceCount, upstreamErrorCount, danglingCNameCount,
                   requestDuration, upstreamLog, written, ret>>

\* the target was already processed
CircularReference ==
    /\ pc = "redo"
    /\ ~BudgetReached(maxLookup, lookupCnt)
    /\ lookupCnt' = lookupCnt + 1
    /\ AlreadyProcessed(lookupedNames, targetName)
    /\ circularReferenceCount' = circularReferenceCount + 1
    /\ pc' = "out"
    /\ UNCHANGED <<variant, maxLookup, nextErr, captured, response, lookupedNames,
                   rrs, targetName, deferred, requestCount,
                   maxLookupReachedCount, upstreamErrorCount, danglingCNameCount,
                   requestDuration, upstreamLog, written, ret>>

\* the part of an iteration every upstream call shares
CallsUpstream(err, answer) ==
    /\ pc = "redo"
    /\ ~BudgetReached(maxLookup, lookupCnt)
    /\ lookupCnt' = lookupCnt + 1
    /\ ~AlreadyProcessed(lookupedNames, targetName)
    /\ upstreamLog' = Append(upstreamLog,
           [name |-> targetName, qtype |-> QType(response), err |-> err, answer |-> answer])

\* s.upstream.Lookup returned an error
UpstreamError ==
    /\ CallsUpstream(TRUE, <<>>)
    /\ upstreamErrorCount' = upstreamErrorCount + 1
    /\ pc' = "out"
    /\ UNCHANGED <<variant, maxLookup, nextErr, captured, response, lookupedNames,
                   rrs, targetName, deferred, requestCount,
                   maxLookupReachedCount, circularReferenceCount, danglingCNameCount,
                   requestDuration, written, ret>>

\* variant: an empty upstream answer is counted as an upstream error
DanglingCName_CountsError ==
    /\ CallsUpstream(FALSE, <<>>)
    /\ upstreamErrorCount' = upstreamErrorCount + 1
    /\ pc' = "out"
    /\ UNCHANGED <<variant, maxLookup, nextErr, captured, response, lookupedNames,
                   rrs, targetName, deferred, requestCount,
                   maxLookupReachedCount, circularReferenceCount, danglingCNameCount,
                   requestDuration, written, ret>>

\* s.upstream.Lookup returned a message without answer records
DanglingCName ==
    /\ CallsUpstream(FALSE, <<>>)
    /\ danglingCNameCount' = danglingCNameCount + 1
    /\ pc' = "out"
    /\ UNCHANGED <<variant, maxLookup, nextErr, captured, response, lookupedNames,
                   rrs, targetName, deferred, requestCount,
                   maxLookupReachedCount, circularReferenceCount, upstreamErrorCount,
                   requestDuration, written, ret>>

\* the upstream answer holds a record that is not a CNAME: commit
Finalized ==
    /\ \E lookupRRs \in UpstreamAnswers :
          /\ Len(lookupRRs) # 0
          /\ IsFinalized(lookupRRs)
          /\ CallsUpstream(FALSE, lookupRRs)
          /\ rrs' = AppendRRs(rrs, lookupRRs)
          /\ response' = Commit(response, AppendRRs(rrs, lookupRRs))
    /\ pc' = "out"
    /\ UNCHANGED <<variant, maxLookup, nextErr, captured, lookupedNames,
                   targetName, deferred, requestCount,
                   maxLookupReachedCount, circularReferenceCount, upstreamErrorCount,
                   danglingCNameCount, requestDuration, written, ret>>

\* the upstream answer holds CNAME records only: next target
NextTarget ==
    /\ \E lookupRRs \in UpstreamAnswers :
          /\ Len(lookupRRs) # 0
          /\ ~IsFinalized(lookupRRs)
          /\ CallsUpstream(FALSE, lookupRRs)
          /\ rrs' = AppendRRs(rrs, lookupRRs)
          /\ lookupedNames' = lookupedNames \cup {targetName}
          /\ LET found == findLastTarget(lookupRRs, targetName)
             IN /\ targetName' = found.name
                /\ pc' = IF found.err = "nil" THEN "redo" ELSE "out"
    /\ UNCHANGED <<variant, maxLookup, nextErr, captured, response,
                   deferred, requestCount,
                   maxLookupReachedCount, circularReferenceCount, upstreamErrorCount,
                   danglingCNameCount, requestDuration, written, ret>>

\* label Out / writeResponse: w.WriteMsg(response)
WriteResponse ==
    /\ pc = "out"
    /\ \E failed \in BOOLEAN :
          /\ written' = Append(written, [msg |-> response, failed |-> failed])
          /\ Return(WriteResult(failed).rcode, WriteResult(failed).err)
    /\ UNCHANGED <<variant, maxLookup, nextErr, captured, response, lookupedNames,
                   lookupCnt, rrs, targetName, deferred, requestCount,
                   maxLookupReachedCount, circularReferenceCount, upstreamErrorCount,
                   danglingCNameCount, upstreamLog>>

Next ==
    \/ (NextFails /\ UNCHANGED <<lvars, pvars, cvars>>)
    \/ (NoAnswerReceived /\ UNCHANGED <<lvars, pvars, cvars>>)
    \/ (Skip /\ UNCHANGED <<lvars, pvars, cvars>>)
    \/ (Begin /\ UNCHANGED <<lvars, pvars, cvars>>)
    \/ (MaxLookupReached /\ UNCHANGED <<lvars, pvars, cvars>>)
    \/ (CircularReference /\ UNCHANGED <<lvars, pvars, cvars>>)
    \/ (UpstreamError /\ UNCHANGED <<lvars, pvars, cvars>>)
    \/ (DanglingCName /\ UNCHANGED <<lvars, pvars, cvars>>)
    \/ (Finalized /\ UNCHANGED <<lvars, pvars, cvars>>)
    \/ (NextTarget /\ UNCHANGED <<lvars, pvars, cvars>>)
    \/ (WriteResponse /\ UNCHANGED <<lvars, pvars, cvars>>)

Spec == Init /\ [][Next]_vars

\* the handler is one sequential flow: every call it makes returns and the
\* next statement runs
FairSpec == Spec /\ WF_vars(Next)

----------------------------------------------------------------------------
(* findLastTarget on its own: every record set up to MaxRRs records *)

HandlerIdle ==
    /\ variant = "loop"
    /\ maxLookup = maxLookupDefault
    /\ pc = "idle"
    /\ nextErr = FALSE
    /\ captured = NoMsg
    /\ response = NoMsg
    /\ lookupedNames = {}
    /\ lookupCnt = 0
    /\ rrs = <<>>
    /\ targetName = ""
    /\ deferred = FALSE
    /\ requestCount = 0
    /\ maxLookupReachedCount = 0
    /\ circularReferenceCount = 0
    /\ upstreamErrorCount = 0
    /\ danglingCNameCount = 0
    /\ requestDuration = 0
    /\ upstreamLog = <<>>
    /\ written = <<>>
    /\ ret = NoRet

LocatorInit ==
    /\ HandlerIdle
    /\ flRRs \in SeqsUpTo(Records, MaxRRs)
    /\ flQname \in Names
    /\ flResult = NoResult
    /\ ParseIdle /\ ConcurrentIdle

CallFindLastTarget ==
    /\ flResult = NoResult
    /\ flResult' = findLastTarget(flRRs, flQname)
    /\ UNCHANGED <<flRRs, flQname>>
    /\ UNCHANGED <<hvars, pvars, cvars>>

LocatorNext == CallFindLastTarget

LocatorSpec == LocatorInit /\ [][LocatorNext]_vars

----------------------------------------------------------------------------
(* parse on its own: every sequence of up to MaxLines argument lists *)

\* finalizePlugin := New()
ParseInit ==
    /\ variant \in {"goto", "loop"}
    /\ maxLookup = maxLookupDefault
    /\ pc = "parse"
    /\ nextErr = FALSE
    /\ captured = NoMsg
    /\ response = NoMsg
    /\ lookupedNames = {}
    /\ lookupCnt = 0
    /\ rrs = <<>>
    /\ targetName = ""
    /\ deferred = FALSE
    /\ requestCount = 0
    /\ maxLookupReachedCount = 0
    /\ circularReferenceCount = 0
    /\ upstreamErrorCount = 0
    /\ danglingCNameCount = 0
    /\ requestDuration = 0
    /\ upstreamLog = <<>>
    /\ written = <<>>
    /\ ret = NoRet
    /\ LocatorIdle /\ ConcurrentIdle
    /\ directives = <<>>
    /\ parseErr = "running"

\* c.Next() returned true and c.RemainingArgs() returned args
ReadsArgs(args) ==
    /\ pc = "parse"
    /\ Len(directives) < MaxLines
    /\ args \in Lines
    /\ directives' = Append(directives, args)

\* return nil, err
ParseFails(err) ==
    /\ parseErr' = err
    /\ pc' = "failed"
    /\ UNCHANGED maxLookup

\* case 0: do nothing
ParseNoArgs ==
    /\ \E args \in Lines : ReadsArgs(args) /\ Len(args) = 0
    /\ UNCHANGED <<pc, parseErr, maxLookup>>

\* case 1 and default: return nil, c.ArgErr()
ParseArgErr ==
    /\ \E args \in Lines : ReadsArgs(args) /\ Len(args) \notin {0, 2}
    /\ ParseFails("wrong argument count")

\* case 2, another parameter name
ParseUnsupported ==
    /\ \E args \in Lines :
          ReadsArgs(args) /\ Len(args) = 2 /\ ~EqualFold(MaxLookupWord, args[1])
    /\ ParseFails("unsupported parameter")

\* case 2, max_lookup, strconv.Atoi fails
ParseAtoiError ==
    /\ \E args \in Lines :
          /\ ReadsArgs(args) /\ Len(args) = 2 /\ EqualFold(MaxLookupWord, args[1])
          /\ Atoi(args[2]).err
    /\ ParseFails("invalid syntax")

\* case 2, max_lookup, n <= 0
ParseNotPositive ==
    /\ \E args \in Lines :
          /\ ReadsArgs(args) /\ Len(args) = 2 /\ EqualFold(MaxLookupWord, args[1])
          /\ ~Atoi(args[2]).err
          /\ NotPositive(Atoi(args[2]).n)
    /\ ParseFails("max_lookup parameter must be greater than 0")

\* case 2, max_lookup: finalizePlugin.maxLookup = n
ParseMaxLookup ==
    /\ \E args \in Lines :
          /\ ReadsArgs(args) /\ Len(args) = 2 /\ EqualFold(MaxLookupWord, args[1])
          /\ ~Atoi(args[2]).err
          /\ ~NotPositive(Atoi(args[2]).n)
          /\ maxLookup' = Atoi(args[2]).n
    /\ UNCHANGED <<pc, parseErr>>

\* c.Next() returned false: return finalizePlugin, nil.  The first call of
\* c.Next() finds the directive that made the server call setup.
ParseReturns ==
    /\ pc = "parse"
    /\ Len(directives) >= 1
    /\ parseErr' = "nil"
    /\ pc' = "parsed"
    /\ UNCHANGED <<maxLookup, directives>>

ParseUnchanged ==
    UNCHANGED <<variant, nextErr, captured, response, lookupedNames, lookupCnt, rrs,
                targetName, deferred, requestCount, maxLookupReachedCount,
                circularReferenceCount, upstreamErrorCount, danglingCNameCount,
                requestDuration, upstreamLog, written, ret, lvars, cvars>>

ParseNext ==
    \/ (ParseNoArgs /\ ParseUnchanged)
    \/ (ParseArgErr /\ ParseUnchanged)
    \/ (ParseUnsupported /\ ParseUnchanged)
    \/ (ParseAtoiError /\ ParseUnchanged)
    \/ (ParseNotPositive /\ ParseUnchanged)
    \/ (ParseMaxLookup /\ ParseUnchanged)
    \/ (ParseReturns /\ ParseUnchanged)

ParseSpec == ParseInit /\ [][ParseNext]_vars

----------------------------------------------------------------------------
(* Several calls of ServeDNS on one handler.  The handler fields and the   *)
(* counters are shared; lookupedNames, lookupCnt, rrs, targetName and      *)
(* response are local variables of each call.  The upstream answers every  *)
(* lookup of a name the same way, so that calls can be compared.           *)

Callers == 1..MaxCalls

\* what the upstream returns for a name: an error, no record, an address, or
\* an alias to another name
LookupError == [err |-> TRUE, answer |-> <<>>]
ZoneAnswers(n) ==
    {LookupError, [err |-> FALSE, answer |-> <<>>]}
      \cup {[err |-> FALSE, answer |-> <<r>>] :
               r \in {x \in Records : x.name = n /\ x.target # n}}
Zones == {z \in [Names -> UNION {ZoneAnswers(n) : n \in Names}] :
             \A n \in Names : z[n] \in ZoneAnswers(n)}

\* the messages the rest of the chain writes: a type A question for a,
\* answered with one record owned by a
ConcurrentMessages ==
    {m \in Messages : m.qname = "a" /\ m.qtype = TypeA /\ Len(m.answer) = 1
                         /\ m.answer[1].name = "a" /\ m.answer[1].target # "a"}

\* the local variables of a call that has not started
NewCall ==
    [pc |-> "start", captured |-> NoMsg, response |-> NoMsg, lookupedNames |-> {},
     lookupCnt |-> 0, rrs |-> <<>>, targetName |-> "", deferred |-> FALSE,
     lookups |-> <<>>, written |-> <<>>]

ConcurrentInit ==
    /\ variant \in {"goto", "loop"}
    /\ maxLookup \in {MaxBudget, maxLookupDefault}
    /\ pc = "serving"
    /\ nextErr = FALSE
    /\ captured = NoMsg
    /\ response = NoMsg
    /\ lookupedNames = {}
    /\ lookupCnt = 0
    /\ rrs = <<>>
    /\ targetName = ""
    /\ deferred = FALSE
    /\ requestCount = 0
    /\ maxLookupReachedCount = 0
    /\ circularReferenceCount = 0
    /\ upstreamErrorCount = 0
    /\ danglingCNameCount = 0
    /\ requestDuration = 0
    /\ upstreamLog = <<>>
    /\ written = <<>>
    /\ ret = NoRet
    /\ LocatorIdle /\ ParseIdle
    /\ zone \in Zones
    /\ calls = [r \in Callers |-> NewCall]

\* the counters after a step: requestCount, the four failure counters in the
\* order of metrics.go, requestDuration
Inc(observed, failure, duration) ==
    /\ requestCount' = requestCount + observed
    /\ circularReferenceCount' = circularReferenceCount + failure[1]
    /\ danglingCNameCount' = danglingCNameCount + failure[2]
    /\ maxLookupReachedCount' = maxLookupReachedCount + failure[3]
    /\ upstreamErrorCount' = upstreamErrorCount + failure[4]
    /\ requestDuration' = requestDuration + duration

NoFailure == <<0, 0, 0, 0>>

\* variant: the set of processed names is a field of the handler
Visited_Shared(r) == UNION {calls[q].lookupedNames : q \in Callers}

\* lookupedNames of call r
Visited(r) == calls[r].lookupedNames

\* call r: a message was captured and one of the skip tests matches
CSkip(r) ==
    /\ calls[r].pc = "start"
    /\ \E m \in ConcurrentMessages :
          /\ Skips(m)
          /\ calls' = [calls EXCEPT ![r] =
                 [@ EXCEPT !.captured = m, !.response = m, !.pc = "out"]]
    /\ Inc(0, NoFailure, 0)

\* call r: a message was captured, no skip test matches
CBegin(r) ==
    /\ calls[r].pc = "start"
    /\ \E m \in ConcurrentMessages :
          /\ ~Skips(m)
          /\ LET copied == CopyAnswer(variant, m.answer)
                 found == findLastTarget(copied, QName(m))
             IN calls' = [calls EXCEPT ![r] =
                    [@ EXCEPT !.captured = m, !.response = m, !.deferred = TRUE,
                              !.rrs = copied, !.targetName = found.name,
                              !.pc = IF found.err = "nil" THEN "redo" ELSE "out"]]
    /\ Inc(1, NoFailure, 0)

\* call r: the budget test
CMaxLookupReached(r) ==
    /\ calls[r].pc = "redo"
    /\ BudgetReached(maxLookup, calls[r].lookupCnt)
    /\ calls' = [calls EXCEPT ![r].pc = "out"]
    /\ Inc(0, <<0, 0, 1, 0>>, 0)

\* call r: the target was already processed
CCircularReference(r) ==
    /\ calls[r].pc = "redo"
    /\ ~BudgetReached(maxLookup, calls[r].lookupCnt)
    /\ AlreadyProcessed(Visited(r), calls[r].targetName)
    /\ calls' = [calls EXCEPT ![r] =
           [@ EXCEPT !.lookupCnt = @ + 1, !.pc = "out"]]
    /\ Inc(0, <<1, 0, 0, 0>>, 0)

\* call r: one upstream lookup and what follows it in the iteration
CLookup(r) ==
    LET c == calls[r]
        up == zone[c.targetName]
        asked == [c EXCEPT !.lookupCnt = @ + 1, !.lookups = Append(@, c.targetName)]
        gathered == AppendRRs(c.rrs, up.answer)
        found == findLastTarget(up.answer, c.targetName)
    IN /\ c.pc = "redo"
       /\ ~BudgetReached(maxLookup, c.lookupCnt)
       /\ ~AlreadyProcessed(Visited(r), c.targetName)
       /\ IF up.err
          THEN /\ calls' = [calls EXCEPT ![r] = [asked EXCEPT !.pc = "out"]]
               /\ Inc(0, <<0, 0, 0, 1>>, 0)
          ELSE IF Len(up.answer) = 0
          THEN /\ calls' = [calls EXCEPT ![r] = [asked EXCEPT !.pc = "out"]]
               /\ Inc(0, <<0, 1, 0, 0>>, 0)
          ELSE IF IsFinalized(up.answer)
          THEN /\ calls' = [calls EXCEPT ![r] =
                      [asked EXCEPT !.rrs = gathered,
                                    !.response = Commit(c.response, gathered),
                                    !.pc = "out"]]
               /\ Inc(0, NoFailure, 0)
          ELSE /\ calls' = [calls EXCEPT ![r] =
                      [asked EXCEPT !.rrs = gathered,
                                    !.lookupedNames = @ \cup {c.targetName},
                                    !.targetName = found.name,
                                    !.pc = IF found.err = "nil" THEN "redo" ELSE "out"]]
               /\ Inc(0, NoFailure, 0)

\* call r: w.WriteMsg(response), return, the deferred recordDuration
CWriteResponse(r) ==
    /\ calls[r].pc = "out"
    /\ calls' = [calls EXCEPT ![r] =
           [@ EXCEPT !.written = Append(@, calls[r].response), !.pc = "done"]]
    /\ Inc(0, NoFailure, IF calls[r].deferred THEN 1 ELSE 0)

ConcurrentUnchanged ==
    UNCHANGED <<variant, maxLookup, pc, nextErr, captured, response, lookupedNames,
                lookupCnt, rrs, targetName, deferred, upstreamLog, written, ret,
                lvars, pvars, zone>>

ConcurrentNext ==
    \E r \in Callers :
        \/ (CSkip(r) /\ ConcurrentUnchanged)
        \/ (CBegin(r) /\ ConcurrentUnchanged)
        \/ (CMaxLookupReached(r) /\ ConcurrentUnchanged)
        \/ (CCircularReference(r) /\ ConcurrentUnchanged)
        \/ (CLookup(r) /\ ConcurrentUnchanged)
        \/ (CWriteResponse(r) /\ ConcurrentUnchanged)

ConcurrentSpec == ConcurrentInit /\ [][ConcurrentNext]_vars

RECURSIVE Iterate(_, _, _, _, _)
\* the loop of ServeDNS in a call that runs alone, from the head of an
\* iteration to the write: the answer section written, the number of
\* upstream lookups and the failure counter incremented
Iterate(m, visited, cnt, acc, target) ==
    IF BudgetReached(maxLookup, cnt)
    THEN [answer |-> m.answer, lookups |-> cnt, failure |-> <<0, 0, 1, 0>>]
    ELSE IF AlreadyProcessed(visited, target)
    THEN [answer |-> m.answer, lookups |-> cnt, failure |-> <<1, 0, 0, 0>>]
    ELSE IF zone[target].err
    THEN [answer |-> m.answer, lookups |-> cnt + 1, failure |-> <<0, 0, 0, 1>>]
    ELSE IF Len(zone[target].answer) = 0
    THEN [answer |-> m.answer, lookups |-> cnt + 1, failure |-> <<0, 1, 0, 0>>]
    ELSE IF IsFinalized(zone[target].answer)
    THEN [answer |-> AppendRRs(acc, zone[target].answer), lookups |-> cnt + 1,
          failure |-> NoFailure]
    ELSE IF findLastTarget(zone[target].answer, target).err # "nil"
    THEN [answer |-> m.answer, lookups |-> cnt + 1, failure |-> NoFailure]
    ELSE Iterate(m, visited \cup {target}, cnt + 1,
                 AppendRRs(acc, zone[target].answer),
                 findLastTarget(zone[target].answer, target).name)

\* ServeDNS for the captured message m in a call that runs alone
Alone(m) ==
    IF Skips(m)
    THEN [answer |-> m.answer, lookups |-> 0, failure |-> NoFailure, observed |-> 0]
    ELSE LET copied == CopyAnswer(variant, m.answer)
             found == findLastTarget(copied, QName(m))
             ended == IF found.err # "nil"
                      THEN [answer |-> m.answer, lookups |-> 0, failure |-> NoFailure]
                      ELSE Iterate(m, {}, 0, copied, found.name)
         IN [answer |-> ended.answer, lookups |-> ended.lookups,
             failure |-> ended.failure, observed |-> 1]

----------------------------------------------------------------------------
(* Vocabulary of the properties, stated on the inputs and the observable   *)
(* outputs only                                                            *)

IsAlias(r) == r.rrtype = TypeCNAME
AliasIndexes(recs) == {i \in 1..Len(recs) : IsAlias(recs[i])}
AliasOwners(recs) == {recs[i].name : i \in AliasIndexes(recs)}

\* some alias record of the set leads from x to y
RecordEdge(recs, x, y) ==
    \E i \in AliasIndexes(recs) : recs[i].name = x /\ recs[i].target = y

\* the last alias record owned by x leads to y
LastEdge(recs, x, y) ==
    \E i \in AliasIndexes(recs) :
        /\ recs[i].name = x
        /\ recs[i].target = y
        /\ \A j \in AliasIndexes(recs) : recs[j].name = x => j <= i

Distinct(p) == \A i, j \in DOMAIN p : i # j => p[i] # p[j]

\* an unbroken, acyclic chain of k hops, made of alias records of the set,
\* from name from to name to, and to owns no alias record
RecordChain(recs, from, to, k) ==
    /\ to \notin AliasOwners(recs)
    /\ \E p \in [1..(k + 1) -> Names] :
          /\ p[1] = from /\ p[k + 1] = to /\ Distinct(p)
          /\ \A i \in 1..k : RecordEdge(recs, p[i], p[i + 1])

\* the same, each name being followed through its last alias record
LastChain(recs, from, to, k) ==
    /\ to \notin AliasOwners(recs)
    /\ \E p \in [1..(k + 1) -> Names] :
          /\ p[1] = from /\ p[k + 1] = to /\ Distinct(p)
          /\ \A i \in 1..k : LastEdge(recs, p[i], p[i + 1])

Hops == 1..Cardinality(Names)

\* a walk along alias records of the set that starts at from and comes back
\* to a name it has been at
RecordRevisit(recs, from) ==
    \E k \in Hops : \E p \in [1..(k + 1) -> Names] :
        /\ p[1] = from
        /\ \A i \in 1..k : RecordEdge(recs, p[i], p[i + 1])
        /\ \E i \in 1..k : p[i] = p[k + 1]

\* the same, each name being followed through its last alias record
LastRevisit(recs, from) ==
    \E k \in Hops : \E p \in [1..(k + 1) -> Names] :
        /\ p[1] = from
        /\ \A i \in 1..k : LastEdge(recs, p[i], p[i + 1])
        /\ \E i \in 1..k : p[i] = p[k + 1]

\* the target of the last alias record owned by x
LastTarget(recs, x) ==
    LET owned == {i \in AliasIndexes(recs) : recs[i].name = x}
    IN recs[CHOOSE i \in owned : \A j \in owned : j <= i].target

RECURSIVE Walk(_, _, _)
\* where the walk through the last alias record of each name ends: the set
\* of the first name that owns no alias record; no name if the walk comes
\* back to a name it has left
Walk(recs, x, left) ==
    IF x \notin AliasOwners(recs) THEN {x}
    ELSE IF x \in left THEN {}
    ELSE Walk(recs, LastTarget(recs, x), left \cup {x})

\* the names z such that LastChain(recs, from, z, k) for some k, computed by
\* a walk
ChainEnds(recs, from) ==
    IF from \in AliasOwners(recs) THEN Walk(recs, from, {}) ELSE {}

Called == flResult # NoResult

----------------------------------------------------------------------------
(* findLastTarget: C7, C8, C9, properties of LocatorSpec *)

\* C7 as stated: whenever the record set contains an unbroken acyclic chain of
\* alias records of k >= 1 hops from the starting name to a name Z that owns
\* no alias record, findLastTarget returns Z and no error, whatever other
\* alias records the set contains.
C7_AsStated ==
    Called =>
        \A z \in Names : \A k \in Hops :
            RecordChain(flRRs, flQname, z, k) =>
                flResult.name = z /\ flResult.err = "nil"

\* C7 amended: whenever the alias records, each name being followed through
\* the last alias record it owns in the set, form an unbroken acyclic chain of
\* k >= 1 hops from the starting name to a name Z that owns no alias record,
\* findLastTarget returns Z and no error, after exactly k hops.
C7_LastRecordChain ==
    Called =>
        \A z \in Names : \A k \in Hops :
            LastChain(flRRs, flQname, z, k) =>
                flResult.name = z /\ flResult.err = "nil" /\ flResult.hops = k

\* the walk and the chains agree on every record set
ChainEndsAreLastChains ==
    ChainEnds(flRRs, flQname) =
        {z \in Names : \E k \in Hops : LastChain(flRRs, flQname, z, k)}

\* a two-hop chain is resolved in a set that holds a further alias record
C7_Witness ==
    /\ Called
    /\ \E z \in Names : LastChain(flRRs, flQname, z, 2)
    /\ Cardinality(AliasIndexes(flRRs)) = 3
    /\ flResult.err = "nil"

\* C8: findLastTarget returns an error and the empty name when the record set
\* holds no alias record and when no alias record is owned by the starting
\* name; it never returns the starting name.
C8_FailsWithoutAlias ==
    Called =>
        /\ (AliasOwners(flRRs) = {} \/ flQname \notin AliasOwners(flRRs)) =>
               flResult.err # "nil" /\ flResult.name = ""
        /\ flResult.name # flQname

\* alias records are present, none is owned by the starting name
C8_Witness ==
    /\ Called
    /\ AliasOwners(flRRs) # {}
    /\ flQname \notin AliasOwners(flRRs)
    /\ flResult.err = "no CNAME records found for qname"

\* C9 as stated: when a chain of alias records of the set that starts at the
\* starting name revisits a name, findLastTarget returns the circular
\* reference error and no name, after at most (alias owners + 1) hops.
C9_AsStated ==
    (Called /\ RecordRevisit(flRRs, flQname)) =>
        /\ flResult.err = "circular reference"
        /\ flResult.name = ""
        /\ flResult.hops <= Cardinality(AliasOwners(flRRs)) + 1

\* C9 amended: when the chain that starts at the starting name, each name
\* being followed through the last alias record it owns in the set, revisits
\* a name, findLastTarget returns the circular reference error and no name,
\* after at most (alias owners + 1) hops.
C9_LastRecordCycle ==
    (Called /\ LastRevisit(flRRs, flQname)) =>
        /\ flResult.err = "circular reference"
        /\ flResult.name = ""
        /\ flResult.hops <= Cardinality(AliasOwners(flRRs)) + 1

\* a self alias, in a set that holds alias records of other names too
C9_Witness ==
    /\ Called
    /\ LastEdge(flRRs, flQname, flQname)
    /\ Cardinality(AliasOwners(flRRs)) >= 2
    /\ flResult.err = "circular reference"

----------------------------------------------------------------------------
(* ServeDNS: vocabulary *)

\* the rest of the chain returned no error and wrote a message
Delivered == pc # "start" /\ ~nextErr /\ ~captured.nil

\* the request-observed counter was incremented
Attempted == requestCount = 1

FailureCounters ==
    maxLookupReachedCount + circularReferenceCount + upstreamErrorCount + danglingCNameCount

RECURSIVE Gathered(_)
\* the records of every upstream answer, in the order of the lookups
Gathered(log) == IF log = <<>> THEN <<>> ELSE log[1].answer \o Gathered(Tail(log))

LastLookup == upstreamLog[Len(upstreamLog)]

HasNonAlias(answer) == \E i \in 1..Len(answer) : ~IsAlias(answer[i])
AllAlias(answer) == \A i \in 1..Len(answer) : IsAlias(answer[i])
EndsInNonAlias(answer) == Len(answer) > 0 /\ ~IsAlias(answer[Len(answer)])

\* the last upstream lookup returned a record that is not an alias
Terminal == upstreamLog # <<>> /\ ~LastLookup.err /\ HasNonAlias(LastLookup.answer)

LookedUp == {upstreamLog[i].name : i \in 1..Len(upstreamLog)}

CNAME(n, t) == [name |-> n, rrtype |-> TypeCNAME, target |-> t]
A(n) == [name |-> n, rrtype |-> TypeA, target |-> "1.2.3.4"]

\* the answer section handed to the real writer
Transmitted == written[1].msg.answer

\* ServeDNS returned after a request of type A for a, answered [CNAME a->b]
AliasedToB ==
    /\ pc = "done" /\ Delivered
    /\ QName(captured) = "a" /\ captured.qtype = TypeA
    /\ captured.answer = <<CNAME("a", "b")>>

Answered(i, name, answer) ==
    /\ Len(upstreamLog) >= i
    /\ upstreamLog[i].name = name
    /\ ~upstreamLog[i].err
    /\ upstreamLog[i].answer = answer

----------------------------------------------------------------------------
(* ServeDNS: C1 .. C6, C10, properties of Spec *)

\* C1: on a successful resolution the transmitted answer section is the
\* original answer section followed by the records of every upstream hop, in
\* hop order; [CNAME a->b] with upstream(b) = [A b] is transmitted as
\* [CNAME a->b, A b]; [CNAME a->b] with upstream(b) = [CNAME b->c],
\* upstream(c) = [A c] and budget 10 is transmitted as
\* [CNAME a->b, CNAME b->c, A c].
C1_FlattenedAnswer ==
    /\ (Len(written) = 1 /\ Attempted /\ Terminal) =>
           written[1].msg = [captured EXCEPT !.answer = captured.answer \o Gathered(upstreamLog)]
    /\ AliasedToB =>
           /\ Len(upstreamLog) >= 1 /\ upstreamLog[1].name = "b"
           /\ Answered(1, "b", <<A("b")>>) =>
                  Transmitted = <<CNAME("a", "b"), A("b")>>
    /\ (AliasedToB /\ maxLookup = maxLookupDefault /\ Answered(1, "b", <<CNAME("b", "c")>>)) =>
           /\ Len(upstreamLog) >= 2 /\ upstreamLog[2].name = "c"
           /\ Answered(2, "c", <<A("c")>>) =>
                  Transmitted = <<CNAME("a", "b"), CNAME("b", "c"), A("c")>>

\* C1 for the revision with the for loop alone
C1_InLoopRevision == variant = "loop" => C1_FlattenedAnswer

\* C2: when an attempted resolution ends without a terminal upstream answer
\* (budget, revisited target, upstream error, empty answer, locator failure),
\* after any number of alias hops, the transmitted message is the captured
\* message: no record gathered from upstream is in it.
C2_DiscardOnAbort ==
    (Len(written) = 1 /\ Attempted /\ ~Terminal) =>
        /\ written[1].msg = captured
        /\ response = captured

\* an upstream error after a hop that returned an alias
C2_Witness ==
    /\ Len(written) = 1
    /\ Len(upstreamLog) = 2
    /\ Len(upstreamLog[1].answer) > 0
    /\ upstreamLog[2].err
    /\ written[1].msg = captured

\* C3: with a budget B > 0 a request issues at most B upstream lookups; a
\* chain that reaches a terminal record on or before the B-th lookup succeeds;
\* a chain that needs more than B lookups ends with the original response and
\* the max-lookup-reached counter incremented exactly once (B = 1 and a chain
\* of two hops returns just [CNAME a->b]).
C3_Budget ==
    /\ maxLookup > 0 => Len(upstreamLog) <= maxLookup
    /\ (Len(written) = 1 /\ Attempted /\ maxLookup > 0 /\ Terminal) =>
           Transmitted = captured.answer \o Gathered(upstreamLog)
    /\ (Len(written) = 1 /\ maxLookup > 0 /\ Len(upstreamLog) = maxLookup
          /\ ~LastLookup.err /\ LastLookup.answer # <<>> /\ AllAlias(LastLookup.answer)
          /\ \E z \in Names, k \in Hops : LastChain(LastLookup.answer, LastLookup.name, z, k)) =>
           /\ written[1].msg = captured
           /\ maxLookupReachedCount = 1
    /\ (AliasedToB /\ maxLookup = 1) =>
           /\ Len(upstreamLog) = 1 /\ upstreamLog[1].name = "b"
           /\ Answered(1, "b", <<A("b")>>) =>
                  Transmitted = <<CNAME("a", "b"), A("b")>>
           /\ Answered(1, "b", <<CNAME("b", "c")>>) =>
                  Transmitted = <<CNAME("a", "b")>> /\ maxLookupReachedCount = 1

\* C3 for the revision with the for loop alone
C3_InLoopRevision == variant = "loop" => C3_Budget

\* the number of upstream lookups of a request is bounded by the budget when
\* it is positive and by the number of names otherwise, and no name is looked
\* up twice
LookupsBounded ==
    /\ maxLookup > 0 => Len(upstreamLog) <= maxLookup
    /\ maxLookup <= 0 => Len(upstreamLog) <= Cardinality(Names)
    /\ Cardinality(LookedUp) = Len(upstreamLog)
    /\ lookupedNames \subseteq LookedUp

\* the iterations the loop has left: the budget not yet used when there is
\* one, the names not yet in the visited set otherwise
LoopRank ==
    IF maxLookup > 0 THEN maxLookup - lookupCnt
                     ELSE Cardinality(Names) - Cardinality(lookupedNames)

\* a measure of the steps ServeDNS has left
Rank ==
    CASE pc = "start" -> 3 + maxLookup + Cardinality(Names)
      [] pc = "redo"  -> 2 + LoopRank
      [] pc = "out"   -> 1
      [] OTHER        -> 0

\* C4: whatever the upstream answers, the resolution loop reaches the final
\* write, after at most B upstream lookups when B > 0 and after at most as
\* many lookups as there are names when B <= 0: a name of the visited set is
\* never looked up again.  Stated as: the lookups are bounded, every step
\* of the handler lowers a measure that is never negative, a handler that has
\* not returned can always take a step, and a handler that leaves the loop
\* returns with the write done.
C4_Terminates ==
    /\ []LookupsBounded
    /\ [](Rank >= 0)
    /\ [][Rank' < Rank]_vars
    /\ [](pc # "done" => ENABLED Next)
    /\ []((pc = "done" /\ Attempted) => Len(written) = 1)

\* the same as a liveness property, under FairSpec
C4_ReachesWrite == (pc = "redo") ~> (pc = "done" /\ Len(written) = 1)

\* without budget every name was answered with a further alias and the
\* resolution ended
C4_Witness ==
    /\ maxLookup = 0
    /\ Len(upstreamLog) = Cardinality(Names)
    /\ \A i \in 1..Len(upstreamLog) : ~upstreamLog[i].err /\ AllAlias(upstreamLog[i].answer)
          /\ upstreamLog[i].answer # <<>>
    /\ lookupedNames = Names
    /\ Len(written) = 1

\* C5: when the question type is CNAME, or the answer section ends in a
\* non-alias record, the resolution is skipped: no upstream lookup, no failure
\* counter and no request-observed counter incremented, and the captured
\* message is transmitted unchanged.
C5_Skipped ==
    (Delivered /\ (captured.qtype = TypeCNAME \/ EndsInNonAlias(captured.answer))) =>
        /\ upstreamLog = <<>>
        /\ FailureCounters = 0
        /\ requestCount = 0
        /\ response = captured
        /\ pc = "done" => Len(written) = 1 /\ written[1].msg = captured

\* a type A request whose answer is an alias followed by an address was
\* written out
C5_Witness ==
    /\ pc = "done" /\ Delivered
    /\ captured.qtype = TypeA
    /\ Len(captured.answer) = 2
    /\ IsAlias(captured.answer[1])
    /\ EndsInNonAlias(captured.answer)
    /\ Len(written) = 1

\* C6 as stated: the resolution is attempted if and only if the question type
\* is not CNAME, the answer section is not empty, and it is not the case that
\* every record of the answer section is of a non-alias type.
C6_AsStated ==
    Delivered =>
        (Attempted <=>
            /\ captured.qtype # TypeCNAME
            /\ captured.answer # <<>>
            /\ ~(\A i \in 1..Len(captured.answer) : ~IsAlias(captured.answer[i])))

\* C6 amended: the resolution is attempted if and only if the question type is
\* not CNAME, the answer section is not empty, and no record of the answer
\* section is of a non-alias type.
C6_AttemptedIff ==
    /\ Delivered =>
          (Attempted <=>
              /\ captured.qtype # TypeCNAME
              /\ captured.answer # <<>>
              /\ AllAlias(captured.answer))
    /\ (pc # "start" /\ ~Delivered) => ~Attempted

\* a resolution was attempted for an answer of two alias records
C6_Witness ==
    /\ Delivered /\ Attempted
    /\ Len(captured.answer) = 2

\* the write of ServeDNS and its result
OneWrite ==
    /\ Len(written) = 1
    /\ written[1].msg = response
    /\ ret = IF written[1].failed
             THEN [rcode |-> RcodeServerFailure, err |-> "write"]
             ELSE [rcode |-> RcodeSuccess, err |-> "nil"]

\* C10 as stated: whenever the rest of the chain produced a message, ServeDNS
\* writes the current message exactly once to the real writer and returns
\* success if the write succeeds, server failure with the write error if not.
C10_AsStated ==
    (pc = "done" /\ ~captured.nil) => OneWrite

\* C10 amended: whenever the rest of the chain returned no error and produced
\* a message, every path of ServeDNS writes the current message exactly once
\* to the real writer, after all upstream lookups, and returns success if the
\* write succeeds, server failure with the write error if it fails.
C10_WritesOnce ==
    /\ [](Len(written) <= 1)
    /\ []((pc = "done" /\ Delivered) => OneWrite)
    /\ []((Len(written) = 0 /\ Delivered) => ret = NoRet)
    /\ [][Len(written) = 1 => (upstreamLog' = upstreamLog /\ written' = written)]_vars

\* a write that failed, after two upstream lookups
C10_Witness ==
    /\ pc = "done" /\ Delivered
    /\ Len(upstreamLog) = 2
    /\ Len(written) = 1
    /\ written[1].failed
    /\ ret.rcode = RcodeServerFailure

----------------------------------------------------------------------------
(* ServeDNS: C11 .. C20, properties of Spec *)

\* the record set the next target is computed from and the name it is
\* anchored at: the captured answer and the question name before the first
\* lookup, the last upstream answer and its target afterwards
LastAnswer == IF upstreamLog = <<>> THEN captured.answer ELSE LastLookup.answer
LastAnchor == IF upstreamLog = <<>> THEN QName(captured) ELSE LastLookup.name

\* the names the locator can give as the next target
NextTargets == ChainEnds(LastAnswer, LastAnchor)

\* the last upstream lookup returned alias records only
Aliased ==
    /\ upstreamLog # <<>> /\ ~LastLookup.err
    /\ LastLookup.answer # <<>> /\ AllAlias(LastLookup.answer)

\* the reasons of an abort, read from the inputs of the request
BudgetExceeded ==
    Aliased /\ maxLookup > 0 /\ Len(upstreamLog) >= maxLookup /\ NextTargets # {}
VisitedTarget ==
    Aliased /\ NextTargets # {} /\ ~BudgetExceeded /\ NextTargets \subseteq LookedUp
UpstreamFailed == upstreamLog # <<>> /\ LastLookup.err
Dangling == upstreamLog # <<>> /\ ~LastLookup.err /\ LastLookup.answer = <<>>
LocatorFailed == (upstreamLog = <<>> \/ Aliased) /\ NextTargets = {}

\* max-lookup-reached, circular-reference, upstream-error, dangling-alias
Counters ==
    <<maxLookupReachedCount, circularReferenceCount, upstreamErrorCount, danglingCNameCount>>

\* the resolution was attempted and has left the loop
Ended == Attempted /\ pc \in {"out", "done"}

\* C11: each abort reason increments its own counter once and no other:
\* budget exceeded -> max-lookup-reached, visited target -> circular
\* reference, upstream error -> upstream-error, empty upstream answer ->
\* dangling-alias; a request increments at most one failure counter, and none
\* on success, on skip, on a locator failure or while the loop is running.
C11_MatchingCounter ==
    /\ FailureCounters <= 1
    /\ ~Attempted => FailureCounters = 0
    /\ pc = "redo" => FailureCounters = 0
    /\ Ended =>
          /\ BudgetExceeded => Counters = <<1, 0, 0, 0>>
          /\ VisitedTarget => Counters = <<0, 1, 0, 0>>
          /\ UpstreamFailed => Counters = <<0, 0, 1, 0>>
          /\ Dangling => Counters = <<0, 0, 0, 1>>
          /\ ~(UpstreamFailed \/ Dangling \/ BudgetExceeded \/ VisitedTarget) =>
                Counters = <<0, 0, 0, 0>>
          /\ (Terminal \/ LocatorFailed) =>
                ~(UpstreamFailed \/ Dangling \/ BudgetExceeded \/ VisitedTarget)

\* the second upstream answer led back to a name already looked up
C11_Witness ==
    /\ pc = "done" /\ Len(upstreamLog) = 2
    /\ VisitedTarget
    /\ circularReferenceCount = 1

\* ServeDNS returned at one of its first two tests: the rest of the chain
\* returned an error, or no message was captured
NoDownstreamAnswer == pc = "done" /\ (nextErr \/ captured.nil)

\* nothing was counted, observed, looked up or written
Untouched ==
    /\ requestCount = 0 /\ FailureCounters = 0 /\ requestDuration = 0
    /\ upstreamLog = <<>>
    /\ written = <<>>

\* C12 as stated: if the rest of the chain returns an error or produces no
\* message, ServeDNS returns an error, with the server-failure code when no
\* message was captured, and increments no counter, issues no upstream lookup
\* and writes nothing to the real writer.
C12_AsStated ==
    NoDownstreamAnswer =>
        /\ ret.err # "nil"
        /\ captured.nil => ret.rcode = RcodeServerFailure
        /\ Untouched

\* C12 amended: if the rest of the chain returns an error, ServeDNS returns
\* that error with the code the chain returned, whether a message was
\* captured or not; if the chain returns no error and no message was
\* captured, ServeDNS returns the server-failure code with the error "no
\* answer received"; in both cases no counter is incremented, no upstream
\* lookup is issued and nothing is written to the real writer.
C12_FailsEarly ==
    NoDownstreamAnswer =>
        /\ nextErr => ret.err = "next"
        /\ ~nextErr => ret = [rcode |-> RcodeServerFailure, err |-> "no answer received"]
        /\ Untouched

\* the rest of the chain returned no error and wrote no message
C12_Witness ==
    /\ NoDownstreamAnswer /\ ~nextErr /\ captured.nil
    /\ ret.rcode = RcodeServerFailure

\* C14: at every point of a resolution, the abort included, lookupCnt equals
\* the number of upstream lookups issued so far in the request: each call,
\* failed or not, adds one and nothing else adds to it.
C14_CounterEqualsCalls == lookupCnt = Len(upstreamLog)

\* the captured answer is an alias chain from the question name to z
ChainTo(z) == z \in ChainEnds(captured.answer, QName(captured))

\* C16: when the resolution starts the accumulator is a copy of the captured
\* answer section, same records in the same order, and the first target is
\* the one the locator finds in those records from the question name: when
\* the captured answer is an alias chain from the question name to z, the
\* locator succeeds and the first upstream lookup is issued for z; when the
\* locator finds no target in it, no lookup is issued.
C16_StartsFromAnswer ==
    Attempted =>
        /\ upstreamLog = <<>> => rrs = captured.answer
        /\ \A z \in Names : ChainTo(z) =>
               IF upstreamLog = <<>> THEN pc = "redo" /\ targetName = z
                                     ELSE upstreamLog[1].name = z
        /\ (\A z \in Names : ~ChainTo(z)) => upstreamLog = <<>> /\ pc # "redo"

\* C16 for the revision with the for loop alone
C16_InLoopRevision == variant = "loop" => C16_StartsFromAnswer

\* the next target is a name of the visited set
Revisits == Aliased /\ NextTargets # {} /\ NextTargets \subseteq lookupedNames

\* no name is the target of two upstream lookups
NoRepeatedLookup == Cardinality(LookedUp) = Len(upstreamLog)

\* a step that changes the visited set adds one name that was not in it
InsertsOnce ==
    lookupedNames' # lookupedNames =>
        \E n \in Names \ lookupedNames : lookupedNames' = lookupedNames \cup {n}

\* C17 as stated: no name is the target of two upstream lookups and no name
\* is inserted twice into the visited set; when the next target computed from
\* an upstream answer is in the visited set, the resolution aborts with the
\* circular-reference counter incremented and without a lookup of that name.
C17_AsStated ==
    /\ []NoRepeatedLookup
    /\ [][InsertsOnce]_vars
    /\ []((Ended /\ Revisits) => circularReferenceCount = 1)
    /\ [][Revisits => upstreamLog' = upstreamLog]_vars

\* C17 amended: no name is the target of two upstream lookups and no name is
\* inserted twice into the visited set; when the next target computed from an
\* upstream answer is in the visited set, the resolution aborts without a
\* lookup of that name, with the circular-reference counter incremented if
\* the budget is not used up, and with the max-lookup-reached counter
\* incremented instead if it is.
C17_NoRevisit ==
    /\ []NoRepeatedLookup
    /\ [][InsertsOnce]_vars
    /\ []((Ended /\ Revisits) =>
             IF BudgetReached(maxLookup, Len(upstreamLog))
             THEN Counters = <<1, 0, 0, 0>>
             ELSE Counters = <<0, 1, 0, 0>>)
    /\ [][Revisits => upstreamLog' = upstreamLog]_vars

\* a -> b, upstream(b) = [b -> c], upstream(c) = [c -> b], default budget
C17_Witness ==
    /\ AliasedToB /\ maxLookup = maxLookupDefault
    /\ Len(upstreamLog) = 2
    /\ Answered(1, "b", <<CNAME("b", "c")>>)
    /\ Answered(2, "c", <<CNAME("c", "b")>>)
    /\ circularReferenceCount = 1

\* the captured message is what the handler holds and, once it has
\* returned, what it has written
Unchanged ==
    /\ response = captured
    /\ pc = "done" => Len(written) = 1 /\ written[1].msg = captured

\* C18: when the locator finds no target, in the captured answer (no alias
\* record owned by the question name, or a cycle) or in an upstream answer of
\* alias records (no alias record owned by the name just looked up, or a
\* cycle), the resolution ends: the captured message is transmitted
\* unchanged, no further upstream lookup is issued and none of the four
\* failure counters is incremented.
C18_LocatorFailure ==
    /\ []((Attempted /\ LocatorFailed) =>
             pc \in {"out", "done"} /\ FailureCounters = 0 /\ Unchanged)
    /\ [][(Attempted /\ LocatorFailed) => upstreamLog' = upstreamLog]_vars

\* the locator failed on the answer of the first upstream lookup, which
\* holds alias records of other names only
C18_Witness ==
    /\ pc = "done" /\ Attempted
    /\ Len(upstreamLog) = 1
    /\ Aliased /\ LocatorFailed
    /\ LastLookup.name \notin AliasOwners(LastLookup.answer)
    /\ written[1].msg = captured

\* the message with the original answer section followed by the records of
\* every upstream answer
Flattened == [captured EXCEPT !.answer = captured.answer \o Gathered(upstreamLog)]

\* every hop but the last returned alias records only
EarlierHopsAliased ==
    \A i \in 1..(Len(upstreamLog) - 1) :
        /\ ~upstreamLog[i].err
        /\ upstreamLog[i].answer # <<>>
        /\ AllAlias(upstreamLog[i].answer)

\* C19: a hop ends the resolution with success (the accumulator is committed)
\* if and only if its upstream answer holds a record that is not an alias;
\* no upstream lookup follows such a hop, also when the answer holds alias
\* records whose targets are unresolved, and every record of the answer,
\* alias or not, is committed and transmitted.
C19_SuccessIffNonAlias ==
    /\ []((Ended /\ upstreamLog # <<>>) =>
             IF Terminal THEN response = Flattened /\ FailureCounters = 0
                         ELSE response = captured)
    /\ []EarlierHopsAliased
    /\ [][Terminal => upstreamLog' = upstreamLog]_vars
    /\ []((pc = "done" /\ Terminal) => Len(written) = 1 /\ written[1].msg = Flattened)

\* the answer of the last hop holds an alias record and an address record
C19_Witness ==
    /\ pc = "done" /\ Terminal
    /\ Len(LastLookup.answer) = 2
    /\ IsAlias(LastLookup.answer[1]) /\ ~IsAlias(LastLookup.answer[2])
    /\ LastLookup.answer[1].target \notin LookedUp
    /\ Transmitted = captured.answer \o LastLookup.answer

\* none of the skip tests matches the captured message
PassesSkipChecks ==
    /\ Delivered
    /\ captured.qtype # TypeCNAME
    /\ captured.answer # <<>>
    /\ AllAlias(captured.answer)

\* C20: for a request that passes the skip tests the request-observed counter
\* is incremented once, before any upstream lookup, and one duration is
\* observed when the handler returns, whatever the outcome (success, each
\* abort, locator failure, write failure), none before; for a skipped request
\* neither happens.
C20_ObservedOnce ==
    /\ requestCount <= 1 /\ requestDuration <= 1
    /\ PassesSkipChecks =>
          /\ requestCount = 1
          /\ requestDuration = IF pc = "done" THEN 1 ELSE 0
    /\ upstreamLog # <<>> => requestCount = 1
    /\ (Delivered /\ ~PassesSkipChecks) => requestCount = 0 /\ requestDuration = 0

\* the write failed after an upstream lookup
C20_Witness ==
    /\ pc = "done" /\ PassesSkipChecks
    /\ Len(upstreamLog) >= 1
    /\ written[1].failed
    /\ requestCount = 1 /\ requestDuration = 1

----------------------------------------------------------------------------
(* Concurrent calls: C15, a property of ConcurrentSpec *)

Done(r) == calls[r].pc = "done"

\* what call r does when it runs alone
Outcome(r) == Alone(calls[r].captured)

\* the sum of F over the calls
Total(F(_)) ==
    LET sum[k \in 0..MaxCalls] == IF k = 0 THEN 0 ELSE F(k) + sum[k - 1]
    IN sum[MaxCalls]

Observed(r) == Outcome(r).observed
Circular(r) == Outcome(r).failure[1]
DanglingOf(r) == Outcome(r).failure[2]
BudgetOf(r) == Outcome(r).failure[3]
FailedOf(r) == Outcome(r).failure[4]

\* a call that has returned has written the message, and issued the number
\* of lookups, of the same request served alone
SameAsAlone ==
    \A r \in Callers : Done(r) =>
        /\ calls[r].written = <<[calls[r].captured EXCEPT !.answer = Outcome(r).answer]>>
        /\ Len(calls[r].lookups) = Outcome(r).lookups

\* when every call has returned each shared counter holds the sum of the
\* increments of the calls
CountersAddUp ==
    (\A r \in Callers : Done(r)) =>
        /\ requestCount = Total(Observed)
        /\ requestDuration = Total(Observed)
        /\ circularReferenceCount = Total(Circular)
        /\ danglingCNameCount = Total(DanglingOf)
        /\ maxLookupReachedCount = Total(BudgetOf)
        /\ upstreamErrorCount = Total(FailedOf)

\* a step changes the local variables of one call only
OneCallSteps ==
    \E r \in Callers : \A q \in Callers \ {r} : calls'[q] = calls[q]

\* C15: requests served at the same time, their steps and upstream lookups
\* interleaved in any order, each transmit the message and issue the number
\* of lookups they do when served alone; the visited set, the lookup counter
\* and the accumulator of a call are not touched by another call; the shared
\* counters end at the sum of the increments of the calls.
C15_Independent ==
    /\ []SameAsAlone
    /\ []CountersAddUp
    /\ [][OneCallSteps]_vars

\* two calls for different answers have each issued two lookups and have
\* each ended on a name they had processed
C15_Witness ==
    /\ \A r \in Callers : Done(r) /\ Len(calls[r].lookups) = 2
    /\ calls[1].captured # calls[2].captured
    /\ circularReferenceCount >= 2

----------------------------------------------------------------------------
(* parse: C13, a property of ParseSpec *)

RECURSIVE Pow10(_)
Pow10(k) == IF k = 0 THEN 1 ELSE 10 * Pow10(k - 1)

\* the token is a decimal numeral: an optional sign and one digit or more
Unsigned(tok) == IF tok # <<>> /\ tok[1] \in {"+", "-"} THEN Tail(tok) ELSE tok
IsInteger(tok) ==
    Unsigned(tok) # <<>> /\ \A i \in 1..Len(Unsigned(tok)) : Unsigned(tok)[i] \in Digits

RECURSIVE Weighted(_, _)
\* the digits weighted by their position
Weighted(ds, i) ==
    IF i > Len(ds) THEN 0
    ELSE DigitValue(ds[i]) * Pow10(Len(ds) - i) + Weighted(ds, i + 1)

\* the integer a decimal numeral denotes
ValueOf(tok) ==
    IF tok[1] = "-" THEN 0 - Weighted(Unsigned(tok), 1) ELSE Weighted(Unsigned(tok), 1)

\* an occurrence of the directive that supplies max_lookup
SuppliesMaxLookup(args) == Len(args) = 2 /\ EqualFold(MaxLookupWord, args[1])

\* an occurrence parse accepts: no argument, or max_lookup and a positive integer
Acceptable(args) ==
    \/ Len(args) = 0
    \/ SuppliesMaxLookup(args) /\ IsInteger(args[2]) /\ ValueOf(args[2]) > 0

Supplying == {i \in 1..Len(directives) : SuppliesMaxLookup(directives[i])}
LastSupplying == CHOOSE i \in Supplying : \A j \in Supplying : j <= i

\* C13: a handler parse has built has a budget > 0: 10 while no occurrence of
\* the directive supplied max_lookup, the (last) supplied value otherwise, a
\* positive integer; parse fails, with an error and at the occurrence it has
\* just read, exactly when that occurrence has a wrong argument count, another
\* parameter name, a value that is not an integer or a value <= 0; so a
\* budget <= 0 is never the result of a parse.
C13_PositiveBudget ==
    /\ pc \in {"parse", "parsed"} =>
          /\ maxLookup > 0
          /\ Supplying = {} => maxLookup = maxLookupDefault
          /\ Supplying # {} => maxLookup = ValueOf(directives[LastSupplying][2])
          /\ \A i \in 1..Len(directives) : Acceptable(directives[i])
    /\ pc = "parsed" => parseErr = "nil"
    /\ pc = "failed" =>
          /\ parseErr \notin {"nil", "running"}
          /\ ~Acceptable(directives[Len(directives)])

\* parse succeeded on two occurrences, the first supplies max_lookup 1
C13_Witness ==
    /\ pc = "parsed"
    /\ Len(directives) = 2
    /\ SuppliesMaxLookup(directives[1])
    /\ directives[2] = <<>>
    /\ maxLookup = 1

====
